---- MODULE Spec2Model ----
(***************************************************************************)
(* Model of the gin OpenAPI validation middleware                         *)
(* (oapi_validate_response.go, the request validator, utils.go).          *)
(*                                                                         *)
(* Strings are sequences of tokens; the line break is the token NL.       *)
(* A response body is a sequence of tokens: the handler writes tokens of  *)
(* Bytes, the error responses write the tokens of their message.          *)
(***************************************************************************)
EXTENDS Integers, Sequences, FiniteSets, TLC

VARIABLES
    swagger,    \* the contract given to the constructor: its Servers field
    call,       \* the constructor the application calls, and the options it passes
    mw,         \* the gin.HandlerFunc the constructor returned (Nil before)
    log,        \* lines printed by log.Println
    served,     \* requests handled so far by the middleware
    c           \* the gin.Context of each in-flight request, and what its client got

vars == <<swagger, call, mw, log, served, c>>

(*************************** bounds *****************************************)
MaxHandlerOps == 2      \* writer operations one downstream handler performs
MaxRequests == 2        \* requests one middleware instance handles in a run
MaxOuterOps == 1        \* writes an outer middleware issues after the validator returned

(*************************** program constants ******************************)
StatusInternalServerError == 500
StatusBadRequest == 400
defaultStatus == 200

Nil == "nil"
NL == "\n"
Reqs == {1}

Bytes == {"a", "b"}
JSON == "application/json"
TEXT == "text/plain"
ContentTypes == {JSON, TEXT}
HandlerStatuses == {200, 201, 504}

(*************************** Options (type Options) **************************)
\* ErrorHandler: nil, the handler of the test (c.String(statusCode, "test: "+message)),
\* or a handler that answers with c.AbortWithStatusJSON itself. Both answer with
\* the status code they are called with; a MultiErrorHandler returns an error.
ErrorHandlers == {Nil, "string", "abortJSON"}
MultiErrorHandlers == {Nil, "custom"}
\* UserData: unset, or the string the test passes.
UserDatas == {Nil, "hi!"}
\* Options.Options, the engine's own options: the two fields the engine's verdict
\* on a response depends on.
EngineOptions == [IncludeResponseStatus : BOOLEAN, MultiError : BOOLEAN]
DefaultEngineOptions == [IncludeResponseStatus |-> FALSE, MultiError |-> FALSE]

Options ==
    [ErrorHandler : ErrorHandlers,
     Options : {[IncludeResponseStatus |-> TRUE, MultiError |-> FALSE],
                [IncludeResponseStatus |-> TRUE, MultiError |-> TRUE]},
     MultiErrorHandler : MultiErrorHandlers,
     SilenceServersWarning : BOOLEAN,
     UserData : UserDatas]

NoOptions == [nil |-> TRUE]
IsNilOptions(options) == "nil" \in DOMAIN options

(*************************** context.Context *******************************)
\* A value of type interface{}: its dynamic type and the value; nil has neither.
NilValue == [type |-> "nil", v |-> Nil]
StringValue(text) == [type |-> "string", v |-> text]
\* The *gin.Context of the request with identity id.
GinContextValue(id) == [type |-> "*gin.Context", v |-> ToString(id)]
\* The context keys: each is a string constant of a type of its own, and two
\* keys are equal when both the type and the string are.
GinContextKey == [type |-> "GinContextKeyType", name |-> "oapi-codegen/gin-context"]
UserDataKey == [type |-> "UserDataKeyType", name |-> "oapi-codegen/user-data"]
\* context.Background(), context.WithValue(ctx, key, val) and ctx.Value(key): a
\* context is the list of the pairs added to it, the last one added found first.
Background == <<>>
WithValue(ctx, key, val) == Append(ctx, [key |-> key, val |-> val])
RECURSIVE Value(_, _)
Value(ctx, key) ==
    IF ctx = <<>> THEN NilValue
    ELSE IF ctx[Len(ctx)].key = key THEN ctx[Len(ctx)].val
    ELSE Value(SubSeq(ctx, 1, Len(ctx) - 1), key)
\* options.UserData as an interface{} value.
UserDataValue(options) ==
    IF options.UserData = Nil THEN NilValue ELSE StringValue(options.UserData)

(*************************** strings ****************************************)
\* strings.Split(text, "\n"): the lines of text, as the code computes them.
RECURSIVE Split(_)
Split(text) ==
    IF \A i \in 1..Len(text) : text[i] # NL
    THEN <<text>>
    ELSE LET k == CHOOSE i \in 1..Len(text) :
                      text[i] = NL /\ \A j \in 1..(i - 1) : text[j] # NL
         IN  <<SubSeq(text, 1, k - 1)>> \o Split(SubSeq(text, k + 1, Len(text)))

\* strings.Join(texts, sep), as MultiError.Error() joins its sub-errors.
RECURSIVE Join(_, _)
Join(texts, sep) ==
    IF texts = <<>> THEN <<>>
    ELSE IF Len(texts) = 1 THEN texts[1]
    ELSE texts[1] \o <<sep>> \o Join(Tail(texts), sep)

\* encoding/json of a string: the line break is escaped, the text is quoted.
JsonString(text) ==
    <<"\"">> \o [i \in 1..Len(text) |-> IF text[i] = NL THEN "\\n" ELSE text[i]] \o <<"\"">>

\* gin.H{"error": message} as c.JSON renders it.
ErrorJSON(message) == <<"{", "\"error\"", ":">> \o JsonString(message) \o <<"}">>

(*************************** errors *****************************************)
\* A Go error value: its dynamic type, its Error() text, and the sub-errors of the
\* openapi3.MultiError errors.As finds in its chain (<<>> when there is none).
\* cause is the type of the error a %w verb wrapped (Nil when none).
NoError == [type |-> "nil", text |-> <<>>, multi |-> <<>>, cause |-> Nil]
GoError(type, text) == [type |-> type, text |-> text, multi |-> <<>>, cause |-> Nil]
IsNil(err) == err.type = "nil"

SchemaErrorText ==
    <<"Error at \"/id\": value must be an integer", NL, "Schema: {\"type\": \"integer\"}",
      NL, "Value: \"not a number\"">>
MissingErrorText ==
    <<"Error at \"/name\": property \"name\" is missing", NL, "Schema: {}", NL, "Value: {}">>

(*************************** the contract and its router ********************)
\* The operations of the contract the tests load, and what each declares.
\* faultyResource stands for an operation on which the engine fails with an
\* error of a type the middleware does not know.
Routes == {"getResource", "createResource", "faultyResource"}
Declared(route) ==
    CASE route = "getResource" -> {<<200, JSON>>, <<404, JSON>>, <<500, JSON>>}
      [] route = "createResource" -> {<<201, JSON>>, <<504, TEXT>>}
      [] OTHER -> {<<200, JSON>>}
DeclaredStatuses(route) == {d[1] : d \in Declared(route)}

\* A request: its method and path, and whether its own payload conforms.
Targets == {"GET /resource", "POST /resource", "GET /faulty", "GET /missing", "GET %zz"}
Payloads == {"good", "bad", "unauth", "odd"}
Requests == [target : Targets, payload : Payloads]

\* router.FindRoute(req): the route, or the router's error.
FindRoute(req) ==
    CASE req.target = "GET /resource" ->
             [route |-> "getResource", err |-> NoError]
      [] req.target = "POST /resource" ->
             [route |-> "createResource", err |-> NoError]
      [] req.target = "GET /faulty" ->
             [route |-> "faultyResource", err |-> NoError]
      [] req.target = "GET /missing" ->
             [route |-> Nil, err |-> GoError("RouteError", <<"no matching operation was found">>)]
      [] OTHER ->
             [route |-> Nil, err |-> GoError("other", <<"invalid URL escape">>)]

(*************************** the validation engine **************************)
\* An error of the engine that is no ResponseError, RequestError,
\* SecurityRequirementsError or MultiError.
EngineFault == GoError("other", <<"unexpected failure", NL, "in the engine">>)

\* The document a body carries conforms to the schema when it starts with "a".
SchemaOK(body) == body # <<>> /\ body[1] = "a"

\* openapi3filter.ValidateResponse on (route, status, header, body) under the
\* engine's options: nil, or the engine's error.
ValidateResponse(route, status, ctype, body, eo) ==
    IF route = "faultyResource"
    THEN EngineFault
    ELSE IF status \notin DeclaredStatuses(route)
    THEN IF eo.IncludeResponseStatus
         THEN GoError("ResponseError", <<"status is not supported">>)
         ELSE NoError
    ELSE IF <<status, ctype>> \notin Declared(route)
    THEN GoError("ResponseError",
                 <<"response header Content-Type has unexpected value: ", ctype>>)
    ELSE IF ctype = TEXT \/ SchemaOK(body)
    THEN NoError
    ELSE IF eo.MultiError
    THEN [type |-> "ResponseError",
          text |-> <<"response body doesn't match schema: ">>
                   \o Join(<<SchemaErrorText, MissingErrorText>>, " | "),
          multi |-> <<SchemaErrorText, MissingErrorText>>, cause |-> "MultiError"]
    ELSE GoError("ResponseError",
                 <<"response body doesn't match schema: ">> \o SchemaErrorText)

\* openapi3filter.ValidateRequest on the request under the engine's options.
ValidateRequest(req, eo) ==
    CASE req.payload = "good" -> NoError
      [] req.payload = "unauth" ->
             GoError("SecurityRequirementsError", <<"security requirements failed">>)
      [] req.payload = "odd" -> EngineFault
      [] OTHER ->
             IF eo.MultiError
             THEN [type |-> "MultiError",
                   text |-> Join(<<SchemaErrorText, MissingErrorText>>, " | "),
                   multi |-> <<SchemaErrorText, MissingErrorText>>, cause |-> Nil]
             ELSE GoError("RequestError",
                          <<"request body has an error: doesn't match schema: ">>
                          \o SchemaErrorText)

(*************************** gin.Context and its writers ********************)
\* One request's gin.Context. c.Writer is the responseInterceptor bw when
\* intercept holds and the real gin.ResponseWriter otherwise; body is bw.body;
\* target is the method and path of c.Request;
\* status, written and header are the real writer's fields; wire is what the
\* underlying http.ResponseWriter has sent to the client (status 0: nothing yet).
\* failWrite: the real writer's Write returns an error when the buffer is written.
\* The other fields record what happened, for the properties; events lists the
\* steps of ValidateResponseFromContext and of its caller in the order they ran,
\* final is what the client had been sent when the response validator returned,
\* hstatus and hheader are the status and the Content-Type the handler last set,
\* id tells this gin.Context from every other, rctx is the context.Context the
\* engine was called with, captured and direct are the bytes the request's own
\* handler passed to Write and to WriteString.
NewContext ==
    [pc |-> "new", target |-> Nil, route |-> Nil, aborted |-> FALSE,
     intercept |-> FALSE, body |-> <<>>,
     status |-> defaultStatus, written |-> FALSE, header |-> "",
     wire |-> [status |-> 0, ctype |-> "", body |-> <<>>],
     ops |-> 0, handlerRuns |-> 0, installs |-> 0, produced |-> <<>>,
     checked |-> FALSE, vin |-> [status |-> 0, ctype |-> "", body |-> <<>>],
     verdict |-> NoError, err |-> NoError, errCalls |-> <<>>,
     events |-> <<>>, failWrite |-> FALSE, outerOps |-> 0,
     hstatus |-> defaultStatus, hheader |-> "", id |-> 0, rctx |-> Background,
     captured |-> <<>>, direct |-> <<>>,
     final |-> [status |-> 0, ctype |-> "", body |-> <<>>]]
\* The gin.Context gin makes for request r.
NewContextOf(r) == [NewContext EXCEPT !.id = r]

\* gin responseWriter.WriteHeaderNow: the first call sends the status and headers.
WriteHeaderNow(x) ==
    IF x.written THEN x
    ELSE [x EXCEPT !.written = TRUE, !.wire.status = x.status, !.wire.ctype = x.header]

\* gin responseWriter.WriteHeader: records the status unless it has been sent.
WriteHeader(x, code) ==
    IF code > 0 /\ x.status # code /\ ~x.written THEN [x EXCEPT !.status = code] ELSE x

\* gin responseWriter.Write and WriteString: send the headers, then the bytes.
RealWrite(x, b) == [WriteHeaderNow(x) EXCEPT !.wire.body = @ \o b]

\* The same when the underlying http.ResponseWriter refuses the bytes: the
\* headers are sent, no byte is, and Write returns WriteError.
WriteError == GoError("writeError", <<"http: response status code does not allow body">>)
RealWriteError(x) == WriteHeaderNow(x)

\* c.Writer.Write(b): responseInterceptor.Write when the interceptor is installed.
WriterWrite(x, b) ==
    IF x.intercept THEN [x EXCEPT !.body = @ \o b] ELSE RealWrite(x, b)

\* c.Writer.WriteString(s): responseInterceptor does not define it, so the embedded
\* gin.ResponseWriter's method runs, whichever writer c.Writer is.
WriterWriteString(x, b) == RealWrite(x, b)

\* c.Writer.Flush(), c.Writer.WriteHeaderNow(): promoted from the embedded writer too.
WriterFlush(x) == WriteHeaderNow(x)

\* c.Writer.WriteHeader(code), c.Status(code): promoted from the embedded writer.
WriterWriteHeader(x, code) == WriteHeader(x, code)

\* c.Header("Content-Type", v): the header map is the real writer's.
SetHeader(x, v) == [x EXCEPT !.header = v]

\* c.Abort()
Abort(x) == [x EXCEPT !.aborted = TRUE]

\* c.Render(code, r): c.Status(code), the content type unless one is set, the body.
Render(x, code, ctype, b) ==
    LET s == WriterWriteHeader(x, code)
        h == IF s.header = "" THEN SetHeader(s, ctype) ELSE s
    IN  WriterWrite(h, b)

\* c.AbortWithStatusJSON(code, gin.H{"error": message})
AbortWithStatusJSON(x, code, message) == Render(Abort(x), code, JSON, ErrorJSON(message))

\* options.ErrorHandler(c, message, statusCode), for the handlers of ErrorHandlers.
CallErrorHandler(x, handler, message, statusCode) ==
    LET y == [x EXCEPT !.errCalls = Append(@, [message |-> message, statusCode |-> statusCode])]
    IN  IF handler = "string"
        THEN Render(y, statusCode, TEXT, <<"test: ">> \o message)
        ELSE AbortWithStatusJSON(y, statusCode, message)

(*************************** utils.go ***************************************)
\* GetGinContext(c): the *gin.Context stored under GinContextKey, or nil when
\* the key is absent or holds a value of another type.
GetGinContext(ctx) ==
    LET iface == Value(ctx, GinContextKey)
    IN  IF iface = NilValue THEN NilValue
        ELSE IF iface.type # "*gin.Context" THEN NilValue
        ELSE iface

\* GetUserData(c): whatever is stored under UserDataKey, nil when nothing is.
GetUserData(ctx) == Value(ctx, UserDataKey)

\* defaultMultiErrorHandler: "multiple errors encountered: %s" of the MultiError,
\* whose Error() joins the sub-errors' texts with " | ".
defaultMultiErrorHandler(me) ==
    GoError("errorString", <<"multiple errors encountered: ">> \o Join(me, " | "))

\* A MultiErrorHandler the application supplies.
customMultiErrorHandler(me) ==
    GoError("errorString", <<"custom: multiple errors">>)

\* getMultiErrorHandlerFromOptions(options) applied to me.
MultiErrorHandlerFromOptions(options, me) ==
    IF IsNilOptions(options) THEN defaultMultiErrorHandler(me)
    ELSE IF options.MultiErrorHandler = Nil THEN defaultMultiErrorHandler(me)
    ELSE customMultiErrorHandler(me)

\* The engine options of a validation input: options.Options, or the engine's
\* defaults when options is nil.
EngineOptionsOf(options) ==
    IF IsNilOptions(options) THEN DefaultEngineOptions ELSE options.Options

\* fmt.Errorf("...: %w", err): the text is prefixed and err is kept as the cause.
Wrap(prefix, err) ==
    [type |-> "wrapError", text |-> <<prefix>> \o err.text, multi |-> err.multi,
     cause |-> err.type]

(*************************** oapi_validate_response.go **********************)
\* ValidateResponseFromContext, the switch on the router's error.
RouteError(err) ==
    IF err.type = "RouteError"
    THEN GoError("errorString", err.text)
    ELSE GoError("errorString", <<"error validating route: ">> \o err.text)

\* (variant: a structured error's text is kept whole)
ResponseErrorWholeText(err, options) ==
    IF err.multi # <<>>
    THEN MultiErrorHandlerFromOptions(options, err.multi)
    ELSE CASE err.type = "ResponseError" ->
                  GoError("errorString",
                          <<"error in openapi3filter.ResponseError: ">> \o err.text)
           [] err.type = "SecurityRequirementsError" ->
                  GoError("errorString",
                          <<"error in openapi3filter.SecurityRequirementsError: ">> \o err.text)
           [] OTHER -> Wrap("error validating response: ", err)

\* (variant: an unrecognised error is formatted with %s, which keeps no cause)
ResponseErrorNoCause(err, options) ==
    IF err.multi # <<>>
    THEN MultiErrorHandlerFromOptions(options, err.multi)
    ELSE CASE err.type = "ResponseError" ->
                  GoError("errorString",
                          <<"error in openapi3filter.ResponseError: ">> \o Split(err.text)[1])
           [] err.type = "SecurityRequirementsError" ->
                  GoError("errorString",
                          <<"error in openapi3filter.SecurityRequirementsError: ">> \o err.text)
           [] OTHER -> GoError("errorString", <<"error validating response: ">> \o err.text)

\* (variant: the last line of a structured error is kept, not the first)
ResponseErrorLastLine(err, options) ==
    IF err.multi # <<>>
    THEN MultiErrorHandlerFromOptions(options, err.multi)
    ELSE CASE err.type = "ResponseError" ->
                  GoError("errorString",
                          <<"error in openapi3filter.ResponseError: ">>
                          \o Split(err.text)[Len(Split(err.text))])
           [] err.type = "SecurityRequirementsError" ->
                  GoError("errorString",
                          <<"error in openapi3filter.SecurityRequirementsError: ">> \o err.text)
           [] OTHER -> Wrap("error validating response: ", err)

\* (variant: the type switch runs before the test for an aggregate)
ResponseErrorSwitchFirst(err, options) ==
    CASE err.type = "ResponseError" ->
             GoError("errorString",
                     <<"error in openapi3filter.ResponseError: ">> \o Split(err.text)[1])
      [] err.type = "SecurityRequirementsError" ->
             GoError("errorString",
                     <<"error in openapi3filter.SecurityRequirementsError: ">> \o err.text)
      [] OTHER -> IF err.multi # <<>>
                  THEN MultiErrorHandlerFromOptions(options, err.multi)
                  ELSE Wrap("error validating response: ", err)

\* ValidateResponseFromContext, the classification of the engine's error.
ResponseError(err, options) ==
    IF err.multi # <<>>
    THEN MultiErrorHandlerFromOptions(options, err.multi)
    ELSE CASE err.type = "ResponseError" ->
                  GoError("errorString",
                          <<"error in openapi3filter.ResponseError: ">> \o Split(err.text)[1])
           [] err.type = "SecurityRequirementsError" ->
                  GoError("errorString",
                          <<"error in openapi3filter.SecurityRequirementsError: ">> \o err.text)
           [] OTHER -> Wrap("error validating response: ", err)

\* c.Next(): run the rest of the chain, the downstream handler, unless aborted.
Next_(x) ==
    IF x.aborted THEN [x EXCEPT !.pc = "finish"]
    ELSE [x EXCEPT !.pc = "handler", !.handlerRuns = @ + 1,
                   !.events = Append(@, "handler")]

\* (variant: the chain is left to a custom error handler to abort)
ResponseValidatorReportNoAbort(x, options) ==
    LET y == [x EXCEPT !.pc = "finish",
                       !.events = IF IsNil(x.err) THEN @ ELSE Append(@, "respond")]
        z == IF IsNil(y.err) THEN y
             ELSE IF ~IsNilOptions(options) /\ options.ErrorHandler # Nil
             THEN CallErrorHandler(y, options.ErrorHandler, y.err.text,
                                   StatusInternalServerError)
             ELSE AbortWithStatusJSON(y, StatusInternalServerError, y.err.text)
    IN  [z EXCEPT !.final = z.wire]

\* The gin.HandlerFunc of OapiResponseValidatorWithOptions, once
\* ValidateResponseFromContext has returned x.err.
ResponseValidatorReport(x, options) ==
    LET y == [x EXCEPT !.pc = "finish",
                       !.events = IF IsNil(x.err) THEN @ ELSE Append(@, "respond")]
        z == IF IsNil(y.err) THEN y
             ELSE IF ~IsNilOptions(options) /\ options.ErrorHandler # Nil
             THEN Abort(CallErrorHandler(y, options.ErrorHandler, y.err.text,
                                         StatusInternalServerError))
             ELSE AbortWithStatusJSON(y, StatusInternalServerError, y.err.text)
    IN  [z EXCEPT !.final = z.wire]

\* (variant: the interceptor is installed before the route is looked up)
ValidateResponseEnterInstallFirst(x, req) ==
    LET found == FindRoute(req)
        w == [x EXCEPT !.intercept = TRUE, !.body = <<>>, !.installs = @ + 1,
                       !.events = Append(@, "install")]
    IN  IF ~IsNil(found.err)
        THEN [w EXCEPT !.err = RouteError(found.err), !.pc = "report"]
        ELSE Next_([w EXCEPT !.route = found.route])

\* ValidateResponseFromContext up to c.Next(): find the route, or return the
\* routing error; install the interceptor and call the downstream handler.
ValidateResponseEnter(x, req) ==
    LET found == FindRoute(req)
    IN  IF ~IsNil(found.err)
        THEN [x EXCEPT !.err = RouteError(found.err), !.pc = "report"]
        ELSE Next_([x EXCEPT !.route = found.route, !.intercept = TRUE,
                             !.body = <<>>, !.installs = @ + 1,
                             !.events = Append(@, "install")])

\* The gin.HandlerFunc of OapiResponseValidatorWithOptions, from its call to the
\* downstream handler's start (or to its own return, on a routing error).
ResponseValidatorHandlerEnter(x, req, options) ==
    LET e == ValidateResponseEnter([x EXCEPT !.target = req.target], req)
    IN  IF e.pc = "report" THEN ResponseValidatorReport(e, options) ELSE e

\* (variant: the UserData of the options is not put into the context)
ResponseRequestContextNoUserData(x, options) ==
    WithValue(Background, GinContextKey, GinContextValue(x.id))

\* ValidateResponseFromContext: the context the response engine is called with.
ResponseRequestContext(x, options) ==
    LET requestContext == WithValue(Background, GinContextKey, GinContextValue(x.id))
    IN  IF ~IsNilOptions(options)
        THEN WithValue(requestContext, UserDataKey, UserDataValue(options))
        ELSE requestContext

\* (variant: the engine is given every byte the handler produced, not the buffer)
ValidateResponseReturnAllProduced(x, options) ==
    LET verdict == ValidateResponse(x.route, x.status, x.header, x.produced,
                                    EngineOptionsOf(options))
        v == [x EXCEPT !.checked = TRUE, !.verdict = verdict, !.pc = "report",
                       !.vin = [status |-> x.status, ctype |-> x.header, body |-> x.body],
                       !.rctx = ResponseRequestContext(x, options),
                       !.events = @ \o <<"returned", "engine">>]
        w == [v EXCEPT !.events = Append(@, "commit")]
    IN  IF ~IsNil(verdict)
        THEN [v EXCEPT !.intercept = FALSE, !.err = ResponseError(verdict, options)]
        ELSE IF x.failWrite
        THEN [RealWriteError(w) EXCEPT
                  !.err = Wrap("error writing response body: ", WriteError)]
        ELSE RealWrite(w, w.body)

\* (variant: the interceptor stays installed when the engine rejects)
ValidateResponseReturnNoRestore(x, options) ==
    LET verdict == ValidateResponse(x.route, x.status, x.header, x.body,
                                    EngineOptionsOf(options))
        v == [x EXCEPT !.checked = TRUE, !.verdict = verdict, !.pc = "report",
                       !.vin = [status |-> x.status, ctype |-> x.header, body |-> x.body],
                       !.rctx = ResponseRequestContext(x, options),
                       !.events = @ \o <<"returned", "engine">>]
        w == [v EXCEPT !.events = Append(@, "commit")]
    IN  IF ~IsNil(verdict)
        THEN [v EXCEPT !.err = ResponseError(verdict, options)]
        ELSE IF x.failWrite
        THEN [RealWriteError(w) EXCEPT
                  !.err = Wrap("error writing response body: ", WriteError)]
        ELSE RealWrite(w, w.body)

\* (variant: the buffer is written to the real writer before the engine runs)
ValidateResponseReturnCommitFirst(x, options) ==
    LET verdict == ValidateResponse(x.route, x.status, x.header, x.body,
                                    EngineOptionsOf(options))
        w == RealWrite([x EXCEPT !.events = @ \o <<"returned", "commit">>], x.body)
        v == [w EXCEPT !.checked = TRUE, !.verdict = verdict, !.pc = "report",
                       !.vin = [status |-> x.status, ctype |-> x.header, body |-> x.body],
                       !.rctx = ResponseRequestContext(x, options),
                       !.events = Append(@, "engine")]
    IN  IF ~IsNil(verdict)
        THEN [v EXCEPT !.intercept = FALSE, !.err = ResponseError(verdict, options)]
        ELSE v

\* ValidateResponseFromContext after c.Next(): validate the captured response,
\* then restore the writer and return the classified error, or write the buffer.
ValidateResponseReturn(x, options) ==
    LET verdict == ValidateResponse(x.route, x.status, x.header, x.body,
                                    EngineOptionsOf(options))
        v == [x EXCEPT !.checked = TRUE, !.verdict = verdict, !.pc = "report",
                       !.vin = [status |-> x.status, ctype |-> x.header, body |-> x.body],
                       !.rctx = ResponseRequestContext(x, options),
                       !.events = @ \o <<"returned", "engine">>]
        w == [v EXCEPT !.events = Append(@, "commit")]
    IN  IF ~IsNil(verdict)
        THEN [v EXCEPT !.intercept = FALSE, !.err = ResponseError(verdict, options)]
        ELSE IF x.failWrite
        THEN [RealWriteError(w) EXCEPT
                  !.err = Wrap("error writing response body: ", WriteError)]
        ELSE RealWrite(w, w.body)

\* The same, from the downstream handler's return to its own return.
ResponseValidatorHandlerReturn(x, options) ==
    ResponseValidatorReport(ValidateResponseReturn(x, options), options)

(*************************** the request validator **************************)
\* getRequestContext(c, options): the context the request engine is called with.
getRequestContext(x, options) ==
    LET requestContext == WithValue(Background, GinContextKey, GinContextValue(x.id))
    IN  IF ~IsNilOptions(options)
        THEN WithValue(requestContext, UserDataKey, UserDataValue(options))
        ELSE requestContext

\* getRequestValidationInput(c.Request, router, options): the validation input of
\* the resolved operation, or the router's error.
getRequestValidationInput(req) == FindRoute(req)

\* handleValidationError(c, err, options, statusCode): report err with the
\* configured error handler, or with the default JSON body, and abort the chain.
handleValidationError(x, err, options, statusCode) ==
    IF ~IsNilOptions(options) /\ options.ErrorHandler # Nil
    THEN Abort(CallErrorHandler(x, options.ErrorHandler, err.text, statusCode))
    ELSE AbortWithStatusJSON(x, statusCode, err.text)

\* ValidateRequestFromContext, the classification of the engine's error.
RequestError(err, options) ==
    IF err.multi # <<>>
    THEN MultiErrorHandlerFromOptions(options, err.multi)
    ELSE CASE err.type = "RequestError" ->
                  GoError("errorString",
                          <<"error in openapi3filter.RequestError: ">> \o Split(err.text)[1])
           [] err.type = "SecurityRequirementsError" ->
                  GoError("errorString",
                          <<"error in openapi3filter.SecurityRequirementsError: ">> \o err.text)
           [] OTHER -> Wrap("error validating request: ", err)

\* ValidateRequestFromContext(c, router, options): nil, or the error to report.
ValidateRequestFromContext(req, options) ==
    LET input == getRequestValidationInput(req)
        verdict == ValidateRequest(req, EngineOptionsOf(options))
    IN  IF ~IsNil(input.err)
        THEN Wrap("error getting request validation input from route: ", input.err)
        ELSE IF ~IsNil(verdict) THEN RequestError(verdict, options)
        ELSE NoError

\* (variant: a request failure is reported with the response validator's status)
RequestValidatorHandler500(x, req, options) ==
    LET err == ValidateRequestFromContext(req, options)
        v == [x EXCEPT !.checked = IsNil(getRequestValidationInput(req).err),
                       !.err = err, !.target = req.target,
                       !.route = getRequestValidationInput(req).route,
                       !.verdict = IF IsNil(getRequestValidationInput(req).err)
                                   THEN ValidateRequest(req, EngineOptionsOf(options))
                                   ELSE NoError,
                       !.rctx = IF IsNil(getRequestValidationInput(req).err)
                                THEN getRequestContext(x, options)
                                ELSE Background]
    IN  IF ~IsNil(err)
        THEN Next_(handleValidationError(v, err, options, StatusInternalServerError))
        ELSE Next_(v)

\* The gin.HandlerFunc of OapiRequestValidatorWithOptions.
RequestValidatorHandler(x, req, options) ==
    LET err == ValidateRequestFromContext(req, options)
        v == [x EXCEPT !.checked = IsNil(getRequestValidationInput(req).err),
                       !.err = err, !.target = req.target,
                       !.route = getRequestValidationInput(req).route,
                       !.verdict = IF IsNil(getRequestValidationInput(req).err)
                                   THEN ValidateRequest(req, EngineOptionsOf(options))
                                   ELSE NoError,
                       !.rctx = IF IsNil(getRequestValidationInput(req).err)
                                THEN getRequestContext(x, options)
                                ELSE Background]
    IN  IF ~IsNil(err)
        THEN Next_(handleValidationError(v, err, options, StatusBadRequest))
        ELSE Next_(v)

(*************************** constructors ***********************************)
Servers == {Nil, "empty", "nonempty"}
ResponseConstructors ==
    {"OapiResponseValidatorWithOptions", "OapiResponseValidator",
     "OapiResponseValidatorFromYamlFile"}
RequestConstructors ==
    {"OapiRequestValidatorWithOptions", "OapiRequestValidator", "OapiValidatorFromYamlFile"}
Calls ==
    [fn : {"OapiResponseValidatorWithOptions", "OapiRequestValidatorWithOptions"},
     options : Options \cup {NoOptions}]
    \cup [fn : (ResponseConstructors \cup RequestConstructors)
               \ {"OapiResponseValidatorWithOptions", "OapiRequestValidatorWithOptions"},
          options : {NoOptions}]

\* (variant: the SilenceServersWarning option is not consulted)
ServersWarningUnsilenced(servers, options) == servers # Nil

\* The condition both WithOptions constructors print their warning under.
ServersWarning(servers, options) ==
    servers # Nil /\ (IsNilOptions(options) \/ ~options.SilenceServersWarning)

\* Each constructor yields the middleware and the lines it logs.
OapiResponseValidatorWithOptions(servers, options) ==
    [mw |-> [kind |-> "response", options |-> options],
     log |-> IF ServersWarning(servers, options)
             THEN <<"WARN: OapiResponseValidatorWithOptions">> ELSE <<>>]

OapiResponseValidator(servers) == OapiResponseValidatorWithOptions(servers, NoOptions)

OapiRequestValidatorWithOptions(servers, options) ==
    [mw |-> [kind |-> "request", options |-> options],
     log |-> IF ServersWarning(servers, options)
             THEN <<"WARN: OapiRequestValidatorWithOptions">> ELSE <<>>]

OapiRequestValidator(servers) == OapiRequestValidatorWithOptions(servers, NoOptions)

\* The file is readable and parses; servers is what the loaded contract declares.
OapiResponseValidatorFromYamlFile(servers) == OapiRequestValidator(servers)

OapiValidatorFromYamlFile(servers) == OapiRequestValidator(servers)

(*************************** the state machine ******************************)
Init ==
    /\ swagger \in [Servers : Servers]
    /\ call \in Calls
    /\ mw = [kind |-> Nil, options |-> NoOptions]
    /\ log = <<>>
    /\ served = 0
    /\ c = [r \in Reqs |-> NewContextOf(r)]

\* The application builds the middleware.
Construct ==
    /\ mw.kind = Nil
    /\ LET made ==
               CASE call.fn = "OapiResponseValidatorWithOptions" ->
                        OapiResponseValidatorWithOptions(swagger.Servers, call.options)
                 [] call.fn = "OapiResponseValidator" ->
                        OapiResponseValidator(swagger.Servers)
                 [] call.fn = "OapiResponseValidatorFromYamlFile" ->
                        OapiResponseValidatorFromYamlFile(swagger.Servers)
                 [] call.fn = "OapiRequestValidatorWithOptions" ->
                        OapiRequestValidatorWithOptions(swagger.Servers, call.options)
                 [] call.fn = "OapiRequestValidator" ->
                        OapiRequestValidator(swagger.Servers)
                 [] OTHER -> OapiValidatorFromYamlFile(swagger.Servers)
       IN  /\ mw' = made.mw
           /\ log' = log \o made.log
    /\ UNCHANGED <<swagger, call, served, c>>

\* gin runs the response validator for a request, up to the downstream handler.
ResponseValidatorEnter(r) ==
    /\ mw.kind = "response"
    /\ c[r].pc = "new"
    /\ \E req \in Requests :
           c' = [c EXCEPT ![r] = ResponseValidatorHandlerEnter(c[r], req, mw.options)]
    /\ UNCHANGED <<swagger, call, mw, log, served>>

\* The downstream handler returns and the response validator finishes.
ResponseValidatorReturn(r) ==
    /\ mw.kind = "response"
    /\ c[r].pc = "handler"
    /\ c' = [c EXCEPT ![r] = ResponseValidatorHandlerReturn(c[r], mw.options)]
    /\ UNCHANGED <<swagger, call, mw, log, served>>

\* gin runs the request validator for a request, up to the downstream handler.
RequestValidatorEnter(r) ==
    /\ mw.kind = "request"
    /\ c[r].pc = "new"
    /\ \E req \in Requests :
           c' = [c EXCEPT ![r] = RequestValidatorHandler(c[r], req, mw.options)]
    /\ UNCHANGED <<swagger, call, mw, log, served>>

\* The downstream handler returns to the request validator, which returns.
RequestValidatorReturn(r) ==
    /\ mw.kind = "request"
    /\ c[r].pc = "handler"
    /\ c' = [c EXCEPT ![r].pc = "finish"]
    /\ UNCHANGED <<swagger, call, mw, log, served>>

\* One writer operation of the downstream handler, through c.Writer.
HandlerStep(r, y) ==
    /\ c[r].pc = "handler"
    /\ c[r].ops < MaxHandlerOps
    /\ c' = [c EXCEPT ![r] = [y EXCEPT !.ops = @ + 1]]
    /\ UNCHANGED <<swagger, call, mw, log, served>>

HandlerStatus(r) ==
    \E code \in HandlerStatuses :
        HandlerStep(r, [WriterWriteHeader(c[r], code) EXCEPT !.hstatus = code])

HandlerHeader(r) ==
    \E v \in ContentTypes : HandlerStep(r, [SetHeader(c[r], v) EXCEPT !.hheader = v])

\* (variant: the interceptors of all requests in flight write into one buffer)
HandlerWriteSharedBuffer(r) ==
    \E b \in Bytes :
        /\ c[r].pc = "handler"
        /\ c[r].ops < MaxHandlerOps
        /\ c' = [q \in DOMAIN c |->
                    IF q = r
                    THEN [WriterWrite(c[r], <<b>>) EXCEPT !.produced = Append(@, b),
                                                         !.captured = Append(@, b),
                                                         !.ops = @ + 1]
                    ELSE IF c[q].intercept THEN [c[q] EXCEPT !.body = @ \o <<b>>]
                    ELSE c[q]]
        /\ UNCHANGED <<swagger, call, mw, log, served>>

HandlerWrite(r) ==
    \E b \in Bytes :
        HandlerStep(r, [WriterWrite(c[r], <<b>>) EXCEPT !.produced = Append(@, b),
                                                       !.captured = Append(@, b)])

HandlerWriteString(r) ==
    \E b \in Bytes :
        HandlerStep(r, [WriterWriteString(c[r], <<b>>) EXCEPT !.produced = Append(@, b),
                                                             !.direct = Append(@, b)])

HandlerFlush(r) == HandlerStep(r, WriterFlush(c[r]))

\* gin, once the chain has returned: the headers are sent if nothing sent them.
Finish(r) ==
    /\ c[r].pc = "finish"
    /\ c' = [c EXCEPT ![r] = [WriteHeaderNow(c[r]) EXCEPT !.pc = "done"]]
    /\ served' = served + 1
    /\ UNCHANGED <<swagger, call, mw, log>>

\* The next request arrives with a fresh gin.Context.
NextRequest(r) ==
    /\ c[r].pc = "done"
    /\ served < MaxRequests
    /\ c' = [c EXCEPT ![r] = NewContextOf(r)]
    /\ UNCHANGED <<swagger, call, mw, log, served>>

Next ==
    \/ Construct
    \/ \E r \in Reqs :
           \/ ResponseValidatorEnter(r)
           \/ ResponseValidatorReturn(r)
           \/ RequestValidatorEnter(r)
           \/ RequestValidatorReturn(r)
           \/ HandlerStatus(r)
           \/ HandlerHeader(r)
           \/ HandlerWrite(r)
           \/ HandlerWriteString(r)
           \/ HandlerFlush(r)
           \/ Finish(r)
           \/ NextRequest(r)

Spec == Init /\ [][Next]_vars

(*************** the response validator under an outer middleware ***********)
\* The downstream handler returns, the engine accepts, and the real writer's
\* Write returns an error for the bytes of the buffer.
ResponseValidatorReturnWriteError(r) ==
    /\ mw.kind = "response"
    /\ c[r].pc = "handler"
    /\ c[r].body # <<>>
    /\ IsNil(ValidateResponseReturn(c[r], mw.options).verdict)
    /\ c' = [c EXCEPT ![r] = ResponseValidatorHandlerReturn(
                                 [c[r] EXCEPT !.failWrite = TRUE], mw.options)]
    /\ UNCHANGED <<swagger, call, mw, log, served>>

\* One write of a middleware registered before the response validator, issued
\* through c.Writer after its own c.Next() returned.
OuterStep(r, y) ==
    /\ mw.kind = "response"
    /\ c[r].pc = "finish"
    /\ c[r].outerOps < MaxOuterOps
    /\ c' = [c EXCEPT ![r] = [y EXCEPT !.outerOps = @ + 1]]
    /\ UNCHANGED <<swagger, call, mw, log, served>>

OuterWrite(r) == \E b \in Bytes : OuterStep(r, WriterWrite(c[r], <<b>>))

OuterWriteString(r) == \E b \in Bytes : OuterStep(r, WriterWriteString(c[r], <<b>>))

InitChain ==
    /\ swagger = [Servers |-> Nil]
    /\ call \in [fn : {"OapiResponseValidatorWithOptions"}, options : Options \cup {NoOptions}]
    /\ mw = [kind |-> Nil, options |-> NoOptions]
    /\ log = <<>>
    /\ served = 0
    /\ c = [r \in Reqs |-> NewContextOf(r)]

NextChain ==
    \/ Construct
    \/ \E r \in Reqs :
           \/ ResponseValidatorEnter(r)
           \/ ResponseValidatorReturn(r)
           \/ ResponseValidatorReturnWriteError(r)
           \/ HandlerStatus(r)
           \/ HandlerHeader(r)
           \/ HandlerWrite(r)
           \/ HandlerWriteString(r)
           \/ HandlerFlush(r)
           \/ OuterWrite(r)
           \/ OuterWriteString(r)
           \/ Finish(r)

SpecChain == InitChain /\ [][NextChain]_vars

(*************** one response validator, requests in flight together ********)
\* gin serves every request on a goroutine of its own, each with its own
\* gin.Context, through the one gin.HandlerFunc the constructor returned.
Inflight == {1, 2}
InflightTargets == {"GET /resource", "GET /missing"}
InflightOptions ==
    {NoOptions} \cup
    {o \in Options : /\ o.ErrorHandler = "string" /\ o.MultiErrorHandler = Nil
                     /\ ~o.SilenceServersWarning /\ o.UserData = "hi!"
                     /\ o.Options.MultiError}

\* gin runs the response validator for one of the requests in flight.
InflightEnter(r) ==
    /\ mw.kind = "response"
    /\ c[r].pc = "new"
    /\ \E req \in [target : InflightTargets, payload : {"good"}] :
           c' = [c EXCEPT ![r] = ResponseValidatorHandlerEnter(c[r], req, mw.options)]
    /\ UNCHANGED <<swagger, call, mw, log, served>>

InitInflight ==
    /\ swagger = [Servers |-> Nil]
    /\ call \in [fn : {"OapiResponseValidatorWithOptions"}, options : InflightOptions]
    /\ mw = [kind |-> Nil, options |-> NoOptions]
    /\ log = <<>>
    /\ served = 0
    /\ c = [r \in Inflight |-> NewContextOf(r)]

NextInflight ==
    \/ Construct
    \/ \E r \in Inflight :
           \/ InflightEnter(r)
           \/ ResponseValidatorReturn(r)
           \/ HandlerStatus(r)
           \/ HandlerHeader(r)
           \/ HandlerWrite(r)
           \/ HandlerWriteString(r)
           \/ Finish(r)

SpecInflight == InitInflight /\ [][NextInflight]_vars

(*************************** properties *************************************)
IsByte(t) == t \in Bytes
\* The handler's body bytes among what the client was sent.
HandlerBytesOnWire(x) == SelectSeq(x.wire.body, IsByte)
\* The response validator handled the request and its engine gave a verdict.
Validated(x) == mw.kind = "response" /\ x.checked
CustomErrorHandler == ~IsNilOptions(mw.options) /\ mw.options.ErrorHandler # Nil
\* The body an error response carries for a message.
DefaultErrorBody(message) == ErrorJSON(message)
TestErrorBody(message) == <<"test: ">> \o message

\* C1: the handler's body bytes reach the client whole (engine accepted) or not
\* at all (engine rejected, and an error body is written instead).
C1_NeverPartiallyFlushed ==
    \A r \in Reqs :
        (Validated(c[r]) /\ c[r].pc = "done") =>
            \/ /\ IsNil(c[r].verdict)
               /\ HandlerBytesOnWire(c[r]) = c[r].produced
            \/ /\ ~IsNil(c[r].verdict)
               /\ HandlerBytesOnWire(c[r]) = <<>>
               /\ c[r].wire.body \in {DefaultErrorBody(c[r].err.text),
                                      TestErrorBody(c[r].err.text)}

\* C2: an accepted response reaches the client with exactly the status, the
\* content type and the body bytes the handler produced.
C2_AcceptedUnmodified ==
    \A r \in Reqs :
        (Validated(c[r]) /\ c[r].pc = "done" /\ IsNil(c[r].verdict)) =>
            c[r].wire = [status |-> c[r].vin.status, ctype |-> c[r].vin.ctype,
                         body |-> c[r].produced]

\* C3: a rejected response reaches the client with status 500.
C3_RejectedIs500 ==
    \A r \in Reqs :
        (Validated(c[r]) /\ c[r].pc = "done" /\ ~IsNil(c[r].verdict)) =>
            c[r].wire.status = StatusInternalServerError

\* C6: without a custom error handler a failed response validation reaches the
\* client as status 500 with the body {"error": message}, the chain aborted.
C6_DefaultErrorResponse ==
    \A r \in Reqs :
        (mw.kind = "response" /\ c[r].pc = "done" /\ ~IsNil(c[r].err)
         /\ ~CustomErrorHandler) =>
            /\ c[r].wire.status = StatusInternalServerError
            /\ c[r].wire.body = DefaultErrorBody(c[r].err.text)
            /\ c[r].aborted

\* C7: while the interceptor is installed every body byte of the handler is in
\* the buffer and the real sink has sent neither a body byte nor a status.
C7_AllWritesCaptured ==
    \A r \in Reqs :
        (mw.kind = "response" /\ c[r].pc = "handler") =>
            /\ c[r].intercept
            /\ c[r].body = c[r].produced
            /\ c[r].wire.body = <<>>
            /\ c[r].wire.status = 0

\* An error response for the message, by the default body or by the test's handler.
ErrorBodies(message) == {DefaultErrorBody(message), TestErrorBody(message)}
NoRoute(target) == FindRoute([target |-> target, payload |-> "good"]).route = Nil
RoutingMessages ==
    {<<"no matching operation was found">>,
     <<"error validating route: ", "invalid URL escape">>}

\* C4: when the router finds no operation, the response validator neither runs
\* the downstream handler nor installs the interceptor; it returns the routing
\* error, which the client receives as a 500 error response.
C4_NoRouteShortCircuits ==
    \A r \in Reqs :
        (mw.kind = "response" /\ c[r].pc # "new" /\ NoRoute(c[r].target)) =>
            /\ c[r].pc \in {"finish", "done"}
            /\ c[r].handlerRuns = 0
            /\ c[r].installs = 0
            /\ ~c[r].intercept
            /\ ~c[r].checked
            /\ c[r].err.text \in RoutingMessages
            /\ c[r].aborted
            /\ c[r].wire.status = StatusInternalServerError
            /\ c[r].wire.body \in ErrorBodies(c[r].err.text)

C4_Witness ==
    \E r \in Reqs :
        /\ mw.kind = "response"
        /\ c[r].pc = "done"
        /\ c[r].target = "GET /missing"
        /\ c[r].handlerRuns = 0
        /\ c[r].wire.status = StatusInternalServerError

\* C5: with a custom error handler configured, a failed response validation calls
\* it exactly once, with the normalized message and status 500, and leaves the
\* chain aborted whether or not the handler aborted it; otherwise it is not called.
C5_CustomHandlerOnceThenAbort ==
    \A r \in Reqs :
        (mw.kind = "response" /\ CustomErrorHandler) =>
            IF c[r].pc \in {"finish", "done"} /\ ~IsNil(c[r].err)
            THEN /\ c[r].errCalls = <<[message |-> c[r].err.text,
                                       statusCode |-> StatusInternalServerError]>>
                 /\ c[r].aborted
            ELSE c[r].errCalls = <<>>

C5_Witness ==
    \E r \in Reqs :
        /\ mw.kind = "response"
        /\ CustomErrorHandler
        /\ mw.options.ErrorHandler = "string"
        /\ c[r].pc = "done"
        /\ c[r].checked
        /\ ~IsNil(c[r].verdict)
        /\ Len(c[r].errCalls) = 1
        /\ c[r].aborted

\* C8: in the request validator a failed request validation gives the client a
\* 400 error response and the downstream handler never runs; a successful one
\* runs the downstream handler exactly once.
C8_RequestValidatorGate ==
    \A r \in Reqs :
        (mw.kind = "request" /\ c[r].pc # "new") =>
            IF ~IsNil(c[r].err)
            THEN /\ c[r].pc \in {"finish", "done"}
                 /\ c[r].handlerRuns = 0
                 /\ c[r].aborted
                 /\ c[r].wire.status = StatusBadRequest
                 /\ c[r].wire.body \in ErrorBodies(c[r].err.text)
            ELSE c[r].handlerRuns = 1

C8_Witness ==
    \E r \in Reqs :
        /\ mw.kind = "request"
        /\ c[r].pc = "done"
        /\ c[r].route = "getResource"
        /\ ~IsNil(c[r].err)
        /\ c[r].handlerRuns = 0
        /\ c[r].wire.status = StatusBadRequest

\* C9: the middleware OapiResponseValidatorFromYamlFile returns is the one
\* OapiResponseValidator returns for the loaded contract: it intercepts the
\* handler's response and reports failures with status 500.
C9_FromYamlFileIsResponseValidator ==
    (call.fn = "OapiResponseValidatorFromYamlFile" /\ mw.kind # Nil) =>
        /\ mw = OapiResponseValidator(swagger.Servers).mw
        /\ \A r \in Reqs :
               /\ c[r].pc = "handler" => c[r].intercept
               /\ (c[r].pc = "done" /\ ~IsNil(c[r].err)) =>
                      c[r].wire.status = StatusInternalServerError

\* The SilenceServersWarning option as the constructor was given it.
Silenced == ~IsNilOptions(call.options) /\ call.options.SilenceServersWarning
FlipSilence(options) ==
    IF IsNilOptions(options) THEN options
    ELSE [options EXCEPT !.SilenceServersWarning = ~@]
\* No step of a request reads the SilenceServersWarning option.
SilenceIrrelevant ==
    \A r \in Reqs :
        /\ (mw.kind = "response" /\ c[r].pc = "new") =>
               \A req \in Requests :
                   ResponseValidatorHandlerEnter(c[r], req, mw.options)
                   = ResponseValidatorHandlerEnter(c[r], req, FlipSilence(mw.options))
        /\ (mw.kind = "response" /\ c[r].pc = "handler") =>
               ResponseValidatorHandlerReturn(c[r], mw.options)
               = ResponseValidatorHandlerReturn(c[r], FlipSilence(mw.options))
        /\ (mw.kind = "request" /\ c[r].pc = "new") =>
               \A req \in Requests :
                   RequestValidatorHandler(c[r], req, mw.options)
                   = RequestValidatorHandler(c[r], req, FlipSilence(mw.options))

\* C10 (as claimed): the warning is logged once, at construction, exactly when
\* the contract declares a non-empty server list and the warning is not silenced.
C10_WarnsIffServersNonEmpty ==
    /\ mw.kind = Nil => log = <<>>
    /\ mw.kind # Nil =>
           Len(log) = IF swagger.Servers = "nonempty" /\ ~Silenced THEN 1 ELSE 0

\* C10 (amended): the warning is logged once, at construction, exactly when the
\* contract's Servers field is not nil (a declared but empty list included) and
\* the warning is not silenced; handling requests never logs it again, and the
\* SilenceServersWarning option changes no step of any request.
C10_WarnsIffServersSet ==
    /\ mw.kind = Nil => log = <<>>
    /\ mw.kind # Nil =>
           Len(log) = IF swagger.Servers # Nil /\ ~Silenced THEN 1 ELSE 0
    /\ SilenceIrrelevant

C10_Witness ==
    /\ mw.kind = "response"
    /\ swagger.Servers = "empty"
    /\ ~Silenced
    /\ Len(log) = 1
    /\ served = MaxRequests

\* The places at which a step occurs in a request's events.
Places(ev, step) == {i \in 1..Len(ev) : ev[i] = step}
\* Step a, when it occurs, occurs once, and step b occurs only after it.
Precedes(ev, a, b) ==
    /\ Cardinality(Places(ev, a)) <= 1
    /\ \A j \in Places(ev, b) : \E i \in Places(ev, a) : i < j

\* C11: for a request whose route resolved, the response validator's steps occur
\* in the order install, handler invoked, handler returned, engine, and only then
\* the commit of the buffer or the error response, each at most once (both only
\* when the commit's write failed); the engine never runs while the handler does.
C11_StepsInOrder ==
    \A r \in Reqs :
        (mw.kind = "response" /\ c[r].route # Nil) =>
            LET ev == c[r].events
            IN  /\ Precedes(ev, "install", "handler")
                /\ Precedes(ev, "handler", "returned")
                /\ Precedes(ev, "returned", "engine")
                /\ Precedes(ev, "engine", "commit")
                /\ Precedes(ev, "engine", "respond")
                /\ Cardinality(Places(ev, "commit")) <= 1
                /\ Cardinality(Places(ev, "respond")) <= 1
                /\ (Places(ev, "commit") # {} /\ Places(ev, "respond") # {})
                       => c[r].failWrite
                /\ c[r].pc = "handler" => Places(ev, "engine") = {}
                /\ c[r].pc \in {"finish", "done"} =>
                       Places(ev, "commit") \cup Places(ev, "respond") # {}
                /\ c[r].installs = Cardinality(Places(ev, "install"))
                /\ c[r].handlerRuns = Cardinality(Places(ev, "handler"))

C11_Witness ==
    \E r \in Reqs :
        /\ mw.kind = "response" /\ c[r].pc = "done" /\ c[r].ops = MaxHandlerOps
        /\ c[r].events = <<"install", "handler", "returned", "engine", "respond">>
        /\ c[r].body # <<>>

\* C12: while the interceptor is installed the handler's status and header
\* changes are the real writer's status and header state, and the validation
\* input carries the status and headers the handler last set (the default
\* status when it set none).
C12_HandlerStatusAndHeadersValidated ==
    \A r \in Reqs :
        (mw.kind = "response" /\ c[r].route # Nil) =>
            /\ c[r].pc = "handler" =>
                   (c[r].status = c[r].hstatus /\ c[r].header = c[r].hheader)
            /\ c[r].checked =>
                   (c[r].vin.status = c[r].hstatus /\ c[r].vin.ctype = c[r].hheader)

\* The sequence part occurs in the sequence whole, as consecutive elements.
Occurs(part, whole) ==
    \E i \in 1..(Len(whole) - Len(part) + 1) :
        SubSeq(whole, i, i + Len(part) - 1) = part
\* The engine rejected the captured response of request r.
Rejected(r) == mw.kind = "response" /\ c[r].checked /\ ~IsNil(c[r].verdict)

\* C13: after a response-validation failure c.Writer is the real writer again;
\* no later write through the context, the error response included, reaches the
\* capture buffer, which stays what the engine validated; the error response
\* is in what the real writer sent.
C13_FailureRestoresRealSink ==
    \A r \in Reqs :
        Rejected(r) =>
            /\ ~c[r].intercept
            /\ c[r].body = c[r].vin.body
            /\ \E e \in ErrorBodies(c[r].err.text) : Occurs(e, c[r].wire.body)

C13_Witness ==
    \E r \in Reqs :
        /\ Rejected(r) /\ c[r].pc = "done"
        /\ c[r].outerOps = MaxOuterOps
        /\ c[r].vin.body # <<>>
        /\ ~Occurs(c[r].wire.body, DefaultErrorBody(c[r].err.text))
        /\ ~Occurs(c[r].wire.body, TestErrorBody(c[r].err.text))

\* The engine accepted the captured response of request r.
Accepted(r) == mw.kind = "response" /\ c[r].checked /\ IsNil(c[r].verdict)
\* The buffer was written to the real writer once: one commit, the buffer is the
\* end of what the client was sent, and every byte the handler produced was sent.
CommittedOnce(x) ==
    /\ Cardinality(Places(x.events, "commit")) = 1
    /\ Len(x.final.body) = Len(x.produced)
    /\ SubSeq(x.final.body, Len(x.final.body) - Len(x.vin.body) + 1,
              Len(x.final.body)) = x.vin.body
\* The returned error wraps the real writer's error.
WrapsWriteError(err) ==
    /\ err.cause = WriteError.type
    /\ err.text = <<"error writing response body: ">> \o WriteError.text
\* The client was sent an error response for the message.
ErrorResponseSent(x, message) == \E e \in ErrorBodies(message) : Occurs(e, x.final.body)

\* C14: when the engine accepts, the buffer is written to the real writer
\* exactly once; if that write fails, ValidateResponseFromContext returns an
\* error wrapping the write error, and the middleware reports it to the client
\* through the configured or default error response.
C14_CommitOnceWriteErrorReported ==
    \A r \in Reqs :
        Accepted(r) =>
            /\ Cardinality(Places(c[r].events, "commit")) = 1
            /\ ~c[r].failWrite => (CommittedOnce(c[r]) /\ IsNil(c[r].err))
            /\ c[r].failWrite =>
                   /\ WrapsWriteError(c[r].err)
                   /\ Len(c[r].errCalls) = IF CustomErrorHandler THEN 1 ELSE 0
                   /\ ErrorResponseSent(c[r], c[r].err.text)

\* (what of C14 the code does: all but the error response reaching the client)
CommitOnceWriteErrorReturned ==
    \A r \in Reqs :
        Accepted(r) =>
            /\ Cardinality(Places(c[r].events, "commit")) = 1
            /\ ~c[r].failWrite => (CommittedOnce(c[r]) /\ IsNil(c[r].err))
            /\ c[r].failWrite =>
                   /\ WrapsWriteError(c[r].err)
                   /\ Len(c[r].errCalls) = IF CustomErrorHandler THEN 1 ELSE 0
                   /\ c[r].intercept
                   /\ \E e \in ErrorBodies(c[r].err.text) : Occurs(e, c[r].body)

\* C15: once the response validator has finished a request, by a commit, an
\* error response or a routing failure, no later write for that request changes
\* what the client receives.
C15_NoChangeAfterFinish ==
    \A r \in Reqs :
        (mw.kind = "response" /\ c[r].pc \in {"finish", "done"}) =>
            c[r].wire = c[r].final

\* The engine ran for request r (either validator) and returned an error.
EngineFailed(r) == mw.kind # Nil /\ c[r].checked /\ ~IsNil(c[r].verdict)
\* The engine's error is or wraps an aggregate of errors.
IsAggregate(err) == err.multi # <<>>
CustomMultiErrorHandler ==
    ~IsNilOptions(mw.options) /\ mw.options.MultiErrorHandler # Nil

\* C16: when the engine's error is or wraps an aggregate, the classifier returns
\* what the aggregate handler returns for it (the configured MultiErrorHandler,
\* the default one when none is configured), also when the error is a
\* structured validation error at the same time.
C16_AggregateFirst ==
    \A r \in Reqs :
        (EngineFailed(r) /\ IsAggregate(c[r].verdict)) =>
            c[r].err = IF CustomMultiErrorHandler
                       THEN customMultiErrorHandler(c[r].verdict.multi)
                       ELSE defaultMultiErrorHandler(c[r].verdict.multi)

C16_Witness ==
    \E r \in Reqs :
        /\ EngineFailed(r) /\ IsAggregate(c[r].verdict) /\ mw.kind = "response"
        /\ c[r].verdict.type = "ResponseError"
        /\ ~CustomMultiErrorHandler
        /\ c[r].pc = "done"

\* The engine's error is a structured validation error and no aggregate.
IsStructured(err) == err.type \in {"ResponseError", "RequestError"} /\ ~IsAggregate(err)
StructuredPrefix(err) ==
    IF err.type = "ResponseError"
    THEN "error in openapi3filter.ResponseError: "
    ELSE "error in openapi3filter.RequestError: "
HasLineBreak(text) == \E i \in 1..Len(text) : text[i] = NL
\* line is the text up to its first line break, or all of it when it has none.
IsFirstLine(line, text) ==
    /\ Len(line) <= Len(text)
    /\ SubSeq(text, 1, Len(line)) = line
    /\ ~HasLineBreak(line)
    /\ Len(line) = Len(text) \/ text[Len(line) + 1] = NL

\* C17: for a structured validation error that is no aggregate, the normalized
\* message is the prefix naming the error type followed by the first line of the
\* engine's error text and nothing of its later lines.
C17_StructuredFirstLine ==
    \A r \in Reqs :
        (EngineFailed(r) /\ IsStructured(c[r].verdict)) =>
            /\ c[r].err.text # <<>>
            /\ c[r].err.text[1] = StructuredPrefix(c[r].verdict)
            /\ IsFirstLine(Tail(c[r].err.text), c[r].verdict.text)

C17_Witness ==
    \E r \in Reqs :
        /\ EngineFailed(r) /\ IsStructured(c[r].verdict)
        /\ HasLineBreak(c[r].verdict.text)
        /\ Len(c[r].err.text) = 3
        /\ c[r].pc = "done"

\* The router found no operation for request r.
RoutingFailed(r) == mw.kind # Nil /\ c[r].pc # "new" /\ c[r].route = Nil
\* The engine's error is of no type the classifier has an arm for.
IsUnrecognised(err) ==
    /\ ~IsNil(err) /\ ~IsAggregate(err)
    /\ err.type \notin {"ResponseError", "RequestError", "SecurityRequirementsError"}
UnrecognisedPrefix ==
    IF mw.kind = "response" THEN "error validating response: "
    ELSE "error validating request: "

\* C18: whatever error the engine or the router returns, the classifier returns
\* an error and the request ends in an error response with the chain aborted; an
\* engine error of an unrecognised type is wrapped with the prefix "error
\* validating response" ("error validating request" in the request validator)
\* and stays the cause of the returned error.
C18_ClassifierTotal ==
    \A r \in Reqs :
        /\ (EngineFailed(r) \/ RoutingFailed(r)) =>
               /\ ~IsNil(c[r].err)
               /\ c[r].aborted
               /\ Cardinality(Places(c[r].events, "handler")) =
                      IF mw.kind = "response" /\ c[r].checked THEN 1 ELSE 0
               /\ \E e \in ErrorBodies(c[r].err.text) : Occurs(e, c[r].wire.body)
        /\ (EngineFailed(r) /\ IsUnrecognised(c[r].verdict)) =>
               /\ c[r].err.text = <<UnrecognisedPrefix>> \o c[r].verdict.text
               /\ c[r].err.cause = c[r].verdict.type

C18_Witness ==
    \E r \in Reqs :
        /\ EngineFailed(r) /\ IsUnrecognised(c[r].verdict)
        /\ mw.kind = "response" /\ c[r].ops > 0
        /\ c[r].pc = "done"

\* The classifier handled an error for request r.
Classified(r) == EngineFailed(r) \/ RoutingFailed(r)
\* The router's error text for the target of request r.
RouterText(r) == FindRoute([target |-> c[r].target, payload |-> "good"]).err.text

StringKey == [type |-> "string", name |-> GinContextKey.name]
ForeignContexts ==
    {Background,
     WithValue(Background, UserDataKey, StringValue("hi!")),
     WithValue(Background, StringKey, GinContextValue(1)),
     WithValue(Background, GinContextKey, StringValue("hi!")),
     WithValue(WithValue(Background, GinContextKey, GinContextValue(1)),
               GinContextKey, NilValue)}

\* C20: the context the engine is called with holds the request's own
\* gin.Context under GinContextKey and, when options are given, options.UserData
\* under UserDataKey; GetGinContext and GetUserData return these values from
\* it, and nil from a context that lacks the key or holds a value of another
\* type under it.
C20_ContextCarriesRequestAndUserData ==
    /\ \A r \in Reqs :
           (mw.kind # Nil /\ c[r].checked) =>
               /\ GetGinContext(c[r].rctx) = GinContextValue(r)
               /\ GetUserData(c[r].rctx) =
                      IF IsNilOptions(mw.options) THEN NilValue
                      ELSE UserDataValue(mw.options)
               /\ Cardinality({i \in 1..Len(c[r].rctx) : c[r].rctx[i].key = UserDataKey})
                      = IF IsNilOptions(mw.options) THEN 0 ELSE 1
    /\ \A ctx \in ForeignContexts :
           /\ GetGinContext(ctx) = NilValue
           /\ GetUserData(ctx) =
                  IF \E i \in 1..Len(ctx) : ctx[i].key = UserDataKey
                  THEN StringValue("hi!") ELSE NilValue

C20_Witness ==
    \E r \in Reqs :
        /\ mw.kind = "response" /\ c[r].checked /\ c[r].pc = "done"
        /\ ~IsNilOptions(mw.options)
        /\ GetUserData(c[r].rctx) = StringValue("hi!")
        /\ GetGinContext(c[r].rctx) = GinContextValue(r)

\* C21: with several requests in flight through one middleware, under every
\* interleaving, each request's buffer, validation input and engine context
\* are its own, the bytes its client is sent are the bytes its own handler
\* wrote (on a commit: what it wrote past the interceptor, then its buffer),
\* and the shared options and contract stay as they were at construction.
C21_RequestsIsolated ==
    /\ mw.kind # Nil => (mw.options = call.options /\ swagger.Servers = Nil /\ log = <<>>)
    /\ \A r \in DOMAIN c :
           /\ c[r].id = r
           /\ c[r].intercept => c[r].body = c[r].captured
           /\ c[r].pc = "handler" => c[r].wire.body = c[r].direct
           /\ c[r].checked =>
                  /\ c[r].vin.body = c[r].captured
                  /\ c[r].vin.ctype = c[r].hheader
                  /\ GetGinContext(c[r].rctx) = GinContextValue(r)
           /\ (c[r].checked /\ IsNil(c[r].verdict)) =>
                  c[r].wire.body = c[r].direct \o c[r].captured
           /\ (c[r].checked /\ ~IsNil(c[r].verdict)) =>
                  \E e \in ErrorBodies(c[r].err.text) :
                      c[r].wire.body = c[r].direct \o e

\* Both requests are in their handlers at once, each with bytes in its buffer,
\* and the two buffers differ.
C21_Witness ==
    /\ DOMAIN c = Inflight
    /\ \A r \in Inflight :
           /\ c[r].pc = "handler" /\ c[r].intercept
           /\ c[r].ops = MaxHandlerOps
           /\ c[r].captured # <<>>
    /\ c[1].body # c[2].body

====
